---------------------------- MODULE Spec2Model ----------------------------
(***************************************************************************)
(* Model of the kinetic shallow-water solver with recharge                 *)
(* (src/kinetic_sw/kinetic_sw_recharge.py): chi, maxwellian, kinetic_flux, *)
(* max_wave_speed, step_kinetic and the time loop of run.                  *)
(*                                                                         *)
(* Numbers.  The program computes in binary floating point (Python float   *)
(* and numpy float64: 53-bit significand, round to nearest, ties to even). *)
(* The model computes in the same arithmetic with a significand of Prec    *)
(* bits: a number is [m |-> significand, e |-> exponent], value m * 2^e,   *)
(* with m = 0 or 2^(Prec-1) <= |m| < 2^Prec, and every operation rounds    *)
(* its exact result to the nearest such number, ties to even.  Exponents   *)
(* are unbounded: overflow to infinity, NaN and subnormals are not         *)
(* modelled.  Every operation below is written in the order the source     *)
(* evaluates it, so what rounding does to an identity is visible.          *)
(***************************************************************************)
EXTENDS Integers, Sequences, FiniteSets, TLC

\* Significand width of the modelled floating-point numbers (53 in numpy).
Prec == 10

(***************************************************************************)
(* Floating-point arithmetic                                               *)
(***************************************************************************)
Pow2(n) == 2 ^ n

Abs(n) == IF n < 0 THEN -n ELSE n

RECURSIVE BitLen(_)
BitLen(n) == IF n = 0 THEN 0 ELSE 1 + BitLen(n \div 2)

Zero == [m |-> 0, e |-> 0]

\* a / 2^s (a > 0, s >= 1) rounded to the nearest integer, ties to even.
NearestEven(a, s) ==
    LET q == a \div Pow2(s)
        r == a % Pow2(s)
        half == Pow2(s - 1)
    IN  IF r > half \/ (r = half /\ q % 2 = 1) THEN q + 1 ELSE q

\* sg * q * 2^e with q <= 2^Prec: a rounding that carried into the next
\* binade is renormalised.
Carry(sg, q, e) ==
    IF q = Pow2(Prec) THEN [m |-> sg * Pow2(Prec - 1), e |-> e + 1]
    ELSE [m |-> sg * q, e |-> e]

\* m * 2^e for an integer m of n bits, as a float.
Normal(m, e, n) ==
    IF m = 0 THEN Zero
    ELSE IF n <= Prec
    THEN [m |-> m * Pow2(Prec - n), e |-> e - (Prec - n)]
    ELSE Carry(IF m < 0 THEN -1 ELSE 1, NearestEven(Abs(m), n - Prec),
               e + (n - Prec))

\* The float nearest to m * 2^e (ties to even), normalised.
Round(m, e) == Normal(m, e, BitLen(Abs(m)))

FInt(n) == Round(n, 0)

FNeg(a) == [m |-> -a.m, e |-> a.e]

FAbs(a) == [m |-> Abs(a.m), e |-> a.e]

\* a + b, correctly rounded.  An operand more than Prec + 1 binades below
\* the other is less than a quarter of its last place and is absorbed.
FAdd(a, b) ==
    IF a.m = 0 THEN b
    ELSE IF b.m = 0 THEN a
    ELSE LET d == a.e - b.e
         IN  IF d > Prec + 1 THEN a
             ELSE IF d < -(Prec + 1) THEN b
             ELSE IF d >= 0 THEN Round(a.m * Pow2(d) + b.m, b.e)
             ELSE Round(a.m + b.m * Pow2(-d), a.e)

FSub(a, b) == FAdd(a, FNeg(b))

FMul(a, b) == Round(a.m * b.m, a.e + b.e)

\* a / b for b # 0, correctly rounded: Prec + 2 quotient bits and a sticky
\* bit for the remainder.
FDiv(a, b) ==
    LET k == Prec + 2
        num == Abs(a.m) * Pow2(k)
        den == Abs(b.m)
        q == num \div den
        st == IF num % den = 0 THEN 0 ELSE 1
        sg == IF (a.m < 0) = (b.m < 0) THEN 1 ELSE -1
    IN  IF a.m = 0 THEN Zero
        ELSE Round(sg * (2 * q + st), a.e - b.e - k - 1)

RECURSIVE ISqrtIn(_, _, _)
ISqrtIn(n, lo, hi) ==
    IF lo >= hi THEN lo
    ELSE LET mid == (lo + hi + 1) \div 2
         IN  IF mid * mid <= n THEN ISqrtIn(n, mid, hi)
             ELSE ISqrtIn(n, lo, mid - 1)

\* floor(sqrt(n)) for 0 <= n < 2^30
ISqrt(n) == ISqrtIn(n, 0, 32767)

\* sqrt(a) for a >= 0, correctly rounded.
FSqrt(a) ==
    LET k == IF (a.e - (Prec + 4)) % 2 = 0 THEN Prec + 4 ELSE Prec + 5
        mm == a.m * Pow2(k)
        r == ISqrt(mm)
        st == IF r * r = mm THEN 0 ELSE 1
    IN  IF a.m = 0 THEN Zero
        ELSE Round(2 * r + st, ((a.e - k) \div 2) - 1)

\* Order of two normalised positive floats.
MagLt(a, b) == a.e < b.e \/ (a.e = b.e /\ a.m < b.m)

Sgn(a) == IF a.m > 0 THEN 1 ELSE IF a.m < 0 THEN -1 ELSE 0

FLt(a, b) ==
    IF a.m > 0 /\ b.m > 0 THEN MagLt(a, b)
    ELSE IF a.m < 0 /\ b.m < 0 THEN MagLt(FNeg(b), FNeg(a))
    ELSE Sgn(a) < Sgn(b)

FLe(a, b) == ~FLt(b, a)

\* np.maximum on two numbers
FMax(a, b) == IF FLt(a, b) THEN b ELSE a

RECURSIVE RatDiv(_, _, _, _, _)
RatDiv(sg, rem, q, acc, e) ==
    IF acc >= Pow2(Prec + 1)
    THEN Round(sg * (2 * acc + (IF rem > 0 THEN 1 ELSE 0)), e - 1)
    ELSE IF rem = 0 THEN Round(sg * acc, e)
    ELSE RatDiv(sg, (2 * rem) % q, q, 2 * acc + ((2 * rem) \div q), e - 1)

\* The float nearest to the rational p / q (q > 0): how a decimal literal
\* of the source is read.
FRat(p, q) ==
    RatDiv(IF p < 0 THEN -1 ELSE 1, Abs(p) % q, q, Abs(p) \div q, 0)

\* a * 2^k, exact.
FScale(a, k) == IF a.m = 0 THEN Zero ELSE [m |-> a.m, e |-> a.e + k]

(***************************************************************************)
(* Constants and literals of the source                                    *)
(***************************************************************************)
\* g = 9.81
g == FRat(981, 100)

\* np.pi (355/113 agrees with pi beyond the widest significand modelled)
Pi == FRat(355, 113)

\* h_eps = 1e-8 = 5^-8 * 2^-8: the default of maxwellian, max_wave_speed
\* and step_kinetic, and the literal 1e-8 of run
h_eps == FScale(FRat(1, 390625), -8)

\* the literal 1e-12 = 5^-12 * 2^-12 of run's time step
tiny == FScale(FRat(1, 244140625), -12)

One == FInt(1)

Two == FInt(2)

Half == FRat(1, 2)

(***************************************************************************)
(* numpy helpers.  Arrays are sequences: index i of the source is i + 1.  *)
(***************************************************************************)
RECURSIVE Take(_, _)
Take(f, n) == IF n <= 0 THEN <<>> ELSE Append(Take(f, n - 1), f[n])

\* The array f as a tuple, each element computed once.
Arr(f) == Take(f, Cardinality(DOMAIN f))

RECURSIVE AddFrom(_, _, _)
\* ((acc + a[i]) + a[i+1]) + ...: the loop res += a[i]
AddFrom(acc, a, i) ==
    IF i > Len(a) THEN acc ELSE AddFrom(FAdd(acc, a[i]), a, i + 1)

RECURSIVE Lane(_, _, _, _)
\* numpy's unrolled accumulator j: r[j] += a[i + j] for i = 8, 16, ...
Lane(acc, a, k, stop) ==
    IF k > stop THEN acc ELSE Lane(FAdd(acc, a[k]), a, k + 8, stop)

\* ((r[0] + r[1]) + (r[2] + r[3])) + ((r[4] + r[5]) + (r[6] + r[7]))
Pairwise8(r) ==
    FAdd(FAdd(FAdd(r[1], r[2]), FAdd(r[3], r[4])),
         FAdd(FAdd(r[5], r[6]), FAdd(r[7], r[8])))

\* The unrolled part of np.sum over a[1..full] and the remainder after it.
Blocked(a, full) ==
    AddFrom(Pairwise8(Arr([j \in 1..8 |-> Lane(a[j], a, j + 8, full)])),
            a, full + 1)

\* np.sum of a float array of fewer than 129 elements: a plain loop below
\* 8 elements, otherwise eight interleaved accumulators summed pairwise and
\* the remainder added in order.
NpSum(a) ==
    LET n == Len(a) IN
    IF n < 8 THEN AddFrom(Zero, a, 1)
    ELSE Blocked(a, n - (n % 8))

RECURSIVE NpMax(_, _)
\* np.max of the first n elements of a non-empty array
NpMax(a, n) == IF n = 1 THEN a[1] ELSE FMax(NpMax(a, n - 1), a[n])

\* np.linspace(start, stop, num) for num >= 1: arange(num) * step + start
\* with step = (stop - start) / (num - 1), the last point set to stop.
linspace(start, stop, num) ==
    LET delta == FSub(stop, start)
        div == num - 1
        step == FDiv(delta, FInt(div))
        y(i) == IF div > 0
                THEN IF step.m = 0 THEN FMul(FDiv(FInt(i), FInt(div)), delta)
                     ELSE FMul(FInt(i), step)
                ELSE FMul(FInt(i), delta)
    IN  Arr([k \in 1..num |->
            IF num > 1 /\ k = num THEN stop ELSE FAdd(y(k - 1), start)])

(***************************************************************************)
(* chi, maxwellian, kinetic_flux, max_wave_speed                           *)
(***************************************************************************)
\* A plausible slip: the square of omega forgotten.
chi_unsquared(omega) ==
    Arr([j \in 1..Len(omega) |->
        FMul(FDiv(One, FMul(Pi, g)),
             FSqrt(FMax(FSub(FMul(Two, g), omega[j]), Zero)))])

chi(omega) ==
    Arr([j \in 1..Len(omega) |->
        LET inside == FSub(FMul(Two, g), FMul(omega[j], omega[j]))
        IN  FMul(FDiv(One, FMul(Pi, g)), FSqrt(FMax(inside, Zero)))])

\* A plausible slip: the dry test made strict (h < h_eps).
maxwellian_strict(h, u, xi) ==
    IF FLt(h, h_eps) THEN Arr([j \in 1..Len(xi) |-> Zero])
    ELSE LET sqrt_h == FSqrt(h)
             ch == chi(Arr([j \in 1..Len(xi) |-> FDiv(FSub(xi[j], u), sqrt_h)]))
         IN  Arr([j \in 1..Len(xi) |-> FMul(sqrt_h, ch[j])])

maxwellian(h, u, xi) ==
    IF FLe(h, h_eps) THEN Arr([j \in 1..Len(xi) |-> Zero])
    ELSE LET sqrt_h == FSqrt(h)
             omega == Arr([j \in 1..Len(xi) |-> FDiv(FSub(xi[j], u), sqrt_h)])
             ch == chi(omega)
         IN  Arr([j \in 1..Len(xi) |-> FMul(sqrt_h, ch[j])])

\* M_up = np.where(xi >= 0.0, ML, MR)
M_up(xi, ML, MR) ==
    Arr([j \in 1..Len(xi) |-> IF FLe(Zero, xi[j]) THEN ML[j] ELSE MR[j]])

\* F_mass = np.sum(xi * M_up) * dxi
F_mass(xi, M, dxi) ==
    FMul(NpSum(Arr([j \in 1..Len(xi) |-> FMul(xi[j], M[j])])), dxi)

\* F_mom = np.sum(xi**2 * M_up) * dxi
F_mom(xi, M, dxi) ==
    FMul(NpSum(Arr([j \in 1..Len(xi) |-> FMul(FMul(xi[j], xi[j]), M[j])])),
         dxi)

\* <<F_mass, F_mom>> of the upwinded distribution M
Moments(xi, M, dxi) == <<F_mass(xi, M, dxi), F_mom(xi, M, dxi)>>

\* <<F_mass, F_mom>>
kinetic_flux(hL, uL, hR, uR, xi, dxi) ==
    Moments(xi, M_up(xi, maxwellian(hL, uL, xi), maxwellian(hR, uR, xi)), dxi)

max_wave_speed(h, u) ==
    LET c == Arr([i \in 1..Len(h) |-> FSqrt(FMul(FMul(Two, g), FMax(h[i], h_eps)))])
    IN  NpMax(Arr([i \in 1..Len(h) |-> FAdd(FAbs(u[i]), c[i])]), Len(h))

(***************************************************************************)
(* step_kinetic                                                            *)
(* An optional array (I: np.ndarray | None) is a set: {} is None and {a}   *)
(* is the array a.                                                         *)
(***************************************************************************)
\* S = R.copy(); if I is not None: S = S - I
Recharge(R, I) ==
    IF I = {} THEN R
    ELSE LET Ia == CHOOSE a \in I : TRUE
         IN  Arr([i \in 1..Len(R) |-> FSub(R[i], Ia[i])])

\* u = hu / np.maximum(h, h_eps)
Velocity(h, hu) == Arr([i \in 1..Len(h) |-> FDiv(hu[i], FMax(h[i], h_eps))])

\* A plausible slip: the mirrored state copied without negating u.
InterfaceStatesNoMirror(h, u, i) ==
    LET N == Len(h) IN
    IF i = 0 THEN <<h[1], u[1], h[1], u[1]>>
    ELSE IF i = N THEN <<h[N], u[N], h[N], u[N]>>
    ELSE <<h[i], u[i], h[i + 1], u[i + 1]>>

\* A plausible slip: periodic ends, the two end cells taken as neighbours.
InterfaceStatesPeriodic(h, u, i) ==
    LET N == Len(h) IN
    IF i = 0 THEN <<h[N], u[N], h[1], u[1]>>
    ELSE IF i = N THEN <<h[N], u[N], h[1], u[1]>>
    ELSE <<h[i], u[i], h[i + 1], u[i + 1]>>

\* The state pair <<hL, uL, hR, uR>> of interface i (0 .. N) of the source.
InterfaceStates(h, u, i) ==
    LET N == Len(h) IN
    IF i = 0 THEN <<h[1], FNeg(u[1]), h[1], u[1]>>
    ELSE IF i = N THEN <<h[N], u[N], h[N], FNeg(u[N])>>
    ELSE <<h[i], u[i], h[i + 1], u[i + 1]>>

\* kinetic_flux(hL, uL, hR, uR, xi, dxi) of a state pair s
FluxAt(s, xi, dxi) == kinetic_flux(s[1], s[2], s[3], s[4], xi, dxi)

\* The fluxes of the N + 1 interfaces: entry i + 1 is <<F_mass[i], F_mom[i]>>.
Fluxes(h, u, xi, dxi) ==
    Arr([k \in 1..(Len(h) + 1) |-> FluxAt(InterfaceStates(h, u, k - 1), xi, dxi)])

\* The arguments <<hL, uL, hR, uR>> of the calls of kinetic_flux made by the
\* interface loop, in the order of the calls: entry i + 1 is iteration i.
FluxCalls(h, u) ==
    Arr([k \in 1..(Len(h) + 1) |-> InterfaceStates(h, u, k - 1)])

\* dZdx: central differences inside, one-sided at the two ends, zero for N = 1
BedSlope(Z, dx) ==
    LET N == Len(Z) IN
    Arr([i \in 1..N |->
        IF N = 1 THEN Zero
        ELSE IF i = 1 THEN FDiv(FSub(Z[2], Z[1]), dx)
        ELSE IF i = N THEN FDiv(FSub(Z[N], Z[N - 1]), dx)
        ELSE FDiv(FSub(Z[i + 1], Z[i - 1]), FMul(Two, dx))])

\* h - (dt / dx) * (F_mass[1:] - F_mass[:-1]) + dt * S, before the clamp
DepthUpdate(h, F, S, dx, dt) ==
    Arr([i \in 1..Len(h) |->
        FAdd(FSub(h[i], FMul(FDiv(dt, dx), FSub(F[i + 1][1], F[i][1]))),
             FMul(dt, S[i]))])

\* hu - (dt / dx) * (F_mom[1:] - F_mom[:-1]) + dt * S * u + dt * source_topo
DischargeUpdate(h, hu, u, F, S, dZdx, dx, dt) ==
    Arr([i \in 1..Len(h) |->
        LET source_topo == FMul(FMul(FNeg(g), h[i]), dZdx[i])
        IN  FAdd(FAdd(FSub(hu[i],
                           FMul(FDiv(dt, dx), FSub(F[i + 1][2], F[i][2]))),
                      FMul(FMul(dt, S[i]), u[i])),
                 FMul(dt, source_topo))])

\* A plausible slip: the discharge of dry cells left as computed.
DryCellsKeepDischarge(h_new, hu_new) ==
    <<Arr([i \in 1..Len(h_new) |-> FMax(h_new[i], Zero)]), hu_new>>

\* h_new = np.maximum(h_new, 0.0); hu_new[h_new < h_eps] = 0.0
DryCells(h_new, hu_new) ==
    LET hc == Arr([i \in 1..Len(h_new) |-> FMax(h_new[i], Zero)])
    IN  <<hc, Arr([i \in 1..Len(hu_new) |->
                  IF FLt(hc[i], h_eps) THEN Zero ELSE hu_new[i]])>>

\* The conservative update and the positivity step, from the fluxes F
Update(h, hu, u, F, S, dZdx, dx, dt) ==
    DryCells(DepthUpdate(h, F, S, dx, dt),
             DischargeUpdate(h, hu, u, F, S, dZdx, dx, dt))

\* <<h_new, hu_new>> of step_kinetic(h, hu, Z, R, I, dx, dt, xi, dxi), dx # 0
step_kinetic(h, hu, Z, R, I, dx, dt, xi, dxi) ==
    LET S == Recharge(R, I)
        u == Velocity(h, hu)
    IN  Update(h, hu, u, Fluxes(h, u, xi, dxi), S, BedSlope(Z, dx), dx, dt)

(***************************************************************************)
(* run.  A configuration c is the record of run's arguments; the locals of *)
(* run are the record s returned by RunSetup and advanced by RunIter:      *)
(* pc is "loop" while the time loop runs, "done" after the return and      *)
(* "failed" when an exception left run (err names it).                     *)
(***************************************************************************)
\* The period of the step counter kept by the model.  The source reads step
\* only in step % output_interval, so the counter is kept modulo a common
\* multiple of the cadences explored; a run that never ends is then a cycle.
StepMod == 6

NoFloats == <<>>

Failed(e) ==
    [pc |-> "failed", err |-> e, dx |-> Zero, x |-> NoFloats, Z |-> NoFloats,
     R |-> NoFloats, I |-> {}, xi |-> NoFloats, dxi |-> Zero, h |-> NoFloats,
     hu |-> NoFloats, u |-> NoFloats, t |-> Zero, dt |-> Zero, smax |-> Zero,
     step |-> 0, ret |-> {}]

\* The lines of run before the time loop.
RunSetup(c) ==
    IF c.N = 0 THEN Failed("ZeroDivisionError")      \* dx = L / N
    ELSE IF c.N < 0 THEN Failed("ValueError")        \* np.ones(N)
    ELSE IF c.N_xi < 0 THEN Failed("ValueError")     \* np.linspace(.., N_xi)
    ELSE IF c.N_xi < 2 THEN Failed("IndexError")     \* xi[1] - xi[0]
    ELSE
    LET dx == FDiv(c.L, FInt(c.N))
        x == Arr([i \in 1..c.N |-> FMul(FAdd(FInt(i - 1), Half), dx)])
        h == Arr([i \in 1..c.N |->
                 IF FLt(x[i], FDiv(c.L, Two)) THEN Two ELSE One])
        u == Arr([i \in 1..c.N |-> Zero])
        c0 == FSqrt(FMul(FMul(Two, g), NpMax(h, c.N)))
        xi_max == FMul(c.xi_max_factor, c0)
        xi == linspace(FNeg(xi_max), xi_max, c.N_xi)
    IN  [pc |-> "loop", err |-> "", dx |-> dx, x |-> x,
         Z |-> Arr([i \in 1..c.N |-> Zero]),
         R |-> Arr([i \in 1..c.N |-> FMul(One, c.rain_rate)]),
         I |-> {}, xi |-> xi, dxi |-> FSub(xi[2], xi[1]),
         h |-> h, hu |-> Arr([i \in 1..c.N |-> FMul(h[i], u[i])]), u |-> u,
         t |-> Zero, dt |-> Zero, smax |-> Zero, step |-> 0, ret |-> {}]

\* A plausible slip: the last-step shortening applied to every step.
TimeStepAlwaysToEnd(cfl, dx, smax, t, T) == FSub(T, t)

\* dt = cfl * dx / (smax + 1e-12); if t + dt > T: dt = T - t
TimeStep(cfl, dx, smax, t, T) ==
    LET dt == FDiv(FMul(cfl, dx), FAdd(smax, tiny))
    IN  IF FLt(T, FAdd(t, dt)) THEN FSub(T, t) ELSE dt

\* t += dt; step += 1; if step % output_interval == 0: ...
\* s holds u, smax and dt of this iteration, new is <<h_new, hu_new>>.
RunAdvance(c, s, new) ==
    [s EXCEPT !.h = new[1], !.hu = new[2], !.t = FAdd(s.t, s.dt),
              !.step = (s.step + 1) % StepMod,
              !.pc = IF c.output_interval = 0 THEN "failed" ELSE s.pc,
              !.err = IF c.output_interval = 0 THEN "ZeroDivisionError"
                      ELSE s.err]

\* h, hu = step_kinetic(h, hu, Z, R, I, dx, dt, xi, dxi) and the lines
\* after it (dx # 0: L # 0 in every configuration explored).
RunStep(c, s) ==
    RunAdvance(c, s, step_kinetic(s.h, s.hu, s.Z, s.R, s.I, s.dx, s.dt,
                                  s.xi, s.dxi))

\* One iteration of the time loop (s.pc = "loop" and s.t < c.T).
RunIter(c, s) ==
    LET u == Velocity(s.h, s.hu)
        smax == max_wave_speed(s.h, u)
    IN  RunStep(c, [s EXCEPT !.u = u, !.smax = smax,
                             !.dt = TimeStep(c.cfl, s.dx, smax, s.t, c.T)])

\* The lines after the loop: h_pos = np.maximum(h, 1e-8); u = hu / h_pos;
\* return x, Z, h_pos, u
RunReturn(c, s) ==
    LET h_pos == Arr([i \in 1..Len(s.h) |-> FMax(s.h[i], h_eps)])
        u == Arr([i \in 1..Len(s.h) |-> FDiv(s.hu[i], h_pos[i])])
    IN  [s EXCEPT !.u = u, !.ret = {<<s.x, s.Z, h_pos, u>>}, !.pc = "done"]

(***************************************************************************)
(* step_kinetic and run on an object store.  An array is an object:        *)
(* mem[id] is what object id holds and env[name] is the object a name is   *)
(* bound to (0: None, or not bound).  An assignment name = expression      *)
(* binds the name to a new object; an item assignment name[..] = ..        *)
(* writes into the object the name is bound to.  Named arrays only:        *)
(* F_mass and F_mom are kept as one object of pairs, source_topo and the   *)
(* temporaries of an expression are not kept.                              *)
(***************************************************************************)
Names ==
    {"x", "h", "hu", "u", "Z", "R", "I", "xi", "S", "h_pos", "F", "dZdx",
     "h_new", "hu_new"}

\* The parameters of step_kinetic that are arrays.
Params == {"h", "hu", "Z", "R", "I", "xi"}

NoObjects == [mem |-> <<>>, env |-> [n \in Names |-> 0]]

\* The array a name is bound to.
Val(st, n) == st.mem[st.env[n]]

\* The optional array a name is bound to.
Opt(st, n) == IF st.env[n] = 0 THEN {} ELSE {Val(st, n)}

\* n = <an expression with the value a>
Bind(st, n, a) ==
    [mem |-> Append(st.mem, a),
     env |-> [st.env EXCEPT ![n] = Len(st.mem) + 1]]

\* n[...] = ..., after which the object of n holds a
Write(st, n, a) ==
    [mem |-> [st.mem EXCEPT ![st.env[n]] = a], env |-> st.env]

\* S = R.copy(); if I is not None: S = S - I
StoreRecharge(st) ==
    IF st.env["I"] = 0 THEN Bind(st, "S", Val(st, "R"))
    ELSE Bind(Bind(st, "S", Val(st, "R")), "S",
              Recharge(Val(st, "R"), Opt(st, "I")))

\* h_pos = np.maximum(h, h_eps); u = hu / h_pos
StoreVelocity(st) ==
    Bind(Bind(st, "h_pos",
              Arr([i \in 1..Len(Val(st, "h")) |->
                      FMax(Val(st, "h")[i], h_eps)])),
         "u", Velocity(Val(st, "h"), Val(st, "hu")))

\* F_mass = np.zeros(N+1); F_mom = np.zeros(N+1) and the interface loop
StoreFluxes(st, dxi) ==
    Bind(st, "F", Fluxes(Val(st, "h"), Val(st, "u"), Val(st, "xi"), dxi))

\* dZdx = np.zeros(N) and the assignments into it
StoreBedSlope(st, dx) == Bind(st, "dZdx", BedSlope(Val(st, "Z"), dx))

\* A plausible slip: the depth updated in place (h -= ...; h_new = h).
StoreDepthInPlace(st, dx, dt) ==
    [mem |-> Write(st, "h", DepthUpdate(Val(st, "h"), Val(st, "F"),
                                        Val(st, "S"), dx, dt)).mem,
     env |-> [st.env EXCEPT !["h_new"] = st.env["h"]]]

\* h_new = h - (dt / dx) * (F_mass[1:] - F_mass[:-1]) + dt * S
StoreDepth(st, dx, dt) ==
    Bind(st, "h_new",
         DepthUpdate(Val(st, "h"), Val(st, "F"), Val(st, "S"), dx, dt))

\* source_topo = ...; hu_new = hu - ... + dt * S * u + dt * source_topo
StoreDischarge(st, dx, dt) ==
    Bind(st, "hu_new",
         DischargeUpdate(Val(st, "h"), Val(st, "hu"), Val(st, "u"),
                         Val(st, "F"), Val(st, "S"), Val(st, "dZdx"), dx, dt))

\* h_new = np.maximum(h_new, 0.0)
StoreClamp(st) ==
    Bind(st, "h_new", DryCells(Val(st, "h_new"), Val(st, "hu_new"))[1])

\* dry = h_new < h_eps; hu_new[dry] = 0.0
StoreDry(st) ==
    Write(st, "hu_new", DryCells(Val(st, "h_new"), Val(st, "hu_new"))[2])

\* The body of step_kinetic, lines 231 to 281, in the frame st.
StoreBody(st, dx, dt, dxi) ==
    StoreDry(StoreClamp(StoreDischarge(StoreDepth(StoreBedSlope(
        StoreFluxes(StoreVelocity(StoreRecharge(st)), dxi), dx),
        dx, dt), dx, dt)))

\* The frame of step_kinetic on entry: the parameters are bound to the
\* objects the caller passes.
Enter(st) ==
    [mem |-> st.mem,
     env |-> [n \in Names |-> IF n \in Params THEN st.env[n] ELSE 0]]

\* return h_new, hu_new; the caller binds h and hu to the two objects.
Returned(st, out) ==
    [mem |-> out.mem,
     env |-> [st.env EXCEPT !["h"] = out.env["h_new"],
                            !["hu"] = out.env["hu_new"]]]

\* h, hu = step_kinetic(h, hu, Z, R, I, dx, dt, xi, dxi) in the frame st
StoreCall(st, dx, dt, dxi) == Returned(st, StoreBody(Enter(st), dx, dt, dxi))

\* The arrays run creates before the time loop, in the order of creation,
\* with the values s = RunSetup(c).
StoreSetup(s) ==
    [mem |-> <<s.x, s.h, s.u, s.hu, s.Z, s.R, s.xi>>,
     env |-> [n \in Names |->
                 CASE n = "x" -> 1 [] n = "h" -> 2 [] n = "u" -> 3
                   [] n = "hu" -> 4 [] n = "Z" -> 5 [] n = "R" -> 6
                   [] n = "xi" -> 7 [] OTHER -> 0]]

(***************************************************************************)
(* State                                                                   *)
(***************************************************************************)
VARIABLES
    cfg,      \* the arguments of run
    pc, err,  \* where run is, and the exception that ended it
    dx, x, Z, R, I, xi, dxi,   \* grid, bed, recharge fields, kinetic grid
    h, hu, u, \* depth, discharge, velocity
    t, dt, smax, step,         \* elapsed time, last time step and wave speed
    ret,      \* {} until run returns, then {<<x, Z, h, u>>}
    other,    \* a second run with its own arguments: {} or {[cfg, s]}
    call      \* a call of a pure function: its inputs and its result

locals == <<pc, err, dx, x, Z, R, I, xi, dxi, h, hu, u, t, dt, smax, step, ret>>

vars == <<cfg, locals, other, call>>

Locals ==
    [pc |-> pc, err |-> err, dx |-> dx, x |-> x, Z |-> Z, R |-> R, I |-> I,
     xi |-> xi, dxi |-> dxi, h |-> h, hu |-> hu, u |-> u, t |-> t, dt |-> dt,
     smax |-> smax, step |-> step, ret |-> ret]

Is(s) ==
    /\ pc = s.pc /\ err = s.err /\ dx = s.dx /\ x = s.x /\ Z = s.Z
    /\ R = s.R /\ I = s.I /\ xi = s.xi /\ dxi = s.dxi /\ h = s.h
    /\ hu = s.hu /\ u = s.u /\ t = s.t /\ dt = s.dt /\ smax = s.smax
    /\ step = s.step /\ ret = s.ret

Becomes(s) ==
    /\ pc' = s.pc /\ err' = s.err /\ dx' = s.dx /\ x' = s.x /\ Z' = s.Z
    /\ R' = s.R /\ I' = s.I /\ xi' = s.xi /\ dxi' = s.dxi /\ h' = s.h
    /\ hu' = s.hu /\ u' = s.u /\ t' = s.t /\ dt' = s.dt /\ smax' = s.smax
    /\ step' = s.step /\ ret' = s.ret

\* run has been called and has not executed a line yet
Start == [Failed("") EXCEPT !.pc = "start"]

NoCall == [fn |-> "none"]

(***************************************************************************)
(* Configurations explored                                                 *)
(***************************************************************************)
\* Largest number of cells explored.
MaxN == 3

\* The defaults of the scenario, scaled to a short run.
BaseCfg ==
    [N |-> 2, L |-> One, T |-> FRat(1, 4), cfl |-> Half, rain_rate |-> Zero,
     xi_max_factor |-> One, N_xi |-> 4, output_interval |-> 1]

\* Configurations the interface allows: N > 0, L > 0, T >= 0, cfl in (0, 1],
\* any rainfall, sizing factor > 0, N_xi > 0.
ValidCfgs ==
    { [N |-> n, L |-> One, T |-> T_, cfl |-> c, rain_rate |-> r,
       xi_max_factor |-> f, N_xi |-> k, output_interval |-> 1] :
        n \in 1..MaxN, T_ \in {Zero, FRat(1, 4), FRat(1, 3), One},
        c \in {Half, One},
        r \in {Zero, FInt(-4), FInt(-100), FScale(One, 40)}, f \in {Half, One},
        k \in {3, 4} }

\* The base configuration with one argument outside its documented range,
\* and with the smallest resolution inside it (N_xi = 1).
\* (L <= 0 is left out: with L = 0 the program computes with NaN, which the
\* arithmetic above does not represent, and with L < 0 it counts t down for
\* more steps than are explored.)
InvalidCfgs ==
    {[BaseCfg EXCEPT !.N = n] : n \in {-1, 0}}
    \cup {[BaseCfg EXCEPT !.cfl = c] : c \in {Zero, Two}}
    \cup {[BaseCfg EXCEPT !.N_xi = k] : k \in {-1, 0, 1}}

\* The base configuration under other progress cadences.
CadenceCfgs == {[BaseCfg EXCEPT !.output_interval = k] : k \in {0, 2, 3}}

\* A run on three cells with the default sizing factor, cfl = 1 and a
\* kinetic grid of six points: of these only the two nearest to zero lie in
\* the support of the Maxwellian of depth 2, and none in that of depth 1.
CoarseCfgs ==
    {[BaseCfg EXCEPT !.N = 3, !.cfl = One, !.xi_max_factor = FInt(4),
                     !.N_xi = 6]}

Cfgs == ValidCfgs \cup InvalidCfgs \cup CadenceCfgs \cup CoarseCfgs

(***************************************************************************)
(* run, one call                                                           *)
(***************************************************************************)
Init ==
    /\ cfg \in Cfgs
    /\ Is(Start)
    /\ other = {}
    /\ call = NoCall

Setup ==
    /\ pc = "start"
    /\ Becomes(RunSetup(cfg))
    /\ UNCHANGED <<cfg, other, call>>

Loop ==
    /\ pc = "loop"
    /\ FLt(t, cfg.T)
    /\ Becomes(RunIter(cfg, Locals))
    /\ UNCHANGED <<cfg, other, call>>

Return ==
    /\ pc = "loop"
    /\ ~FLt(t, cfg.T)
    /\ Becomes(RunReturn(cfg, Locals))
    /\ UNCHANGED <<cfg, other, call>>

Next == Setup \/ Loop \/ Return

Spec == Init /\ [][Next]_vars

(***************************************************************************)
(* step_kinetic called directly, any number of times                       *)
(***************************************************************************)
\* Largest number of consecutive step_kinetic calls explored.
MaxCalls == 2

\* Half of h_eps: a depth that is positive and dry.
HalfEps == FScale(h_eps, -1)

\* The array of n copies of v.
Uniform(v, n) == Arr([i \in 1..n |-> v])

\* The arrays of one or two cells with entries in S.
Fields(S) == {<<a>> : a \in S} \cup {<<a, b>> : a \in S, b \in S}

\* The kinetic grid run builds for a largest depth of 2, on four points.
StepGrid ==
    linspace(FNeg(FSqrt(FMul(FMul(Two, g), Two))),
             FSqrt(FMul(FMul(Two, g), Two)), 4)

StepDepths == {Zero, HalfEps, One}

StepDischarges == {FNeg(One), Zero, One}

\* Topography: flat, or rising by one per cell.
StepBeds(n) == {Uniform(Zero, n), Arr([i \in 1..n |-> FInt(i - 1)])}

\* Rainfall: none, or a loss of 4 per unit time in every cell.
StepRains(n) == {Uniform(r, n) : r \in {Zero, FInt(-4)}}

\* Infiltration: None, or 1 in every cell.
StepInfiltrations(n) == {{}, {Uniform(One, n)}}

StepDts == {FRat(1, 8), Half}

StepInit ==
    /\ cfg = BaseCfg
    /\ \E h0 \in Fields(StepDepths), hu0 \in Fields(StepDischarges) :
          /\ Len(h0) = Len(hu0)
          /\ Is([Start EXCEPT !.pc = "step", !.dx = Half, !.xi = StepGrid,
                              !.dxi = FSub(StepGrid[2], StepGrid[1]),
                              !.h = h0, !.hu = hu0])
    /\ other = {}
    /\ call = NoCall

\* h, hu = step_kinetic(h, hu, Z, R, I, dx, dt, xi, dxi) on the current state
CallStep ==
    /\ pc = "step"
    /\ step < MaxCalls
    /\ \E z \in StepBeds(Len(h)), r \in StepRains(Len(h)),
          inf \in StepInfiltrations(Len(h)), d \in StepDts :
          \E new \in {step_kinetic(h, hu, z, r, inf, dx, d, xi, dxi)} :
             /\ h' = new[1]
             /\ hu' = new[2]
             /\ Z' = z
             /\ R' = r
             /\ I' = inf
             /\ dt' = d
             /\ step' = step + 1
    /\ UNCHANGED <<cfg, pc, err, dx, x, xi, dxi, u, t, smax, ret, other, call>>

StepNext == CallStep

StepSpec == StepInit /\ [][StepNext]_vars

(***************************************************************************)
(* chi, maxwellian and the wall fluxes called on their own                 *)
(***************************************************************************)
\* Arguments of chi: 0, 1/8, ..., 6 (sqrt(2 g) is about 4.43).
Omegas == {FRat(k, 8) : k \in 0..48}

\* The float after a positive float a.
NextUp(a) == Round(a.m + 1, a.e)

\* Kinetic grids that are exactly symmetric about zero.
SymGrids ==
    { <<FInt(-2), FInt(-1), Zero, One, Two>>,
      <<FInt(-3), FInt(-1), One, FInt(3)>>,
      <<FInt(-5), FInt(-3), FInt(-1), One, FInt(3), FInt(5)>> }

FnGrids == SymGrids \cup {StepGrid}

FnDepths == {Zero, HalfEps, h_eps, NextUp(h_eps), One, Two}

FnVelocities == {FInt(-2), FNeg(One), Zero, One, Two}

FnInit ==
    /\ cfg = BaseCfg
    /\ Is([Start EXCEPT !.pc = "call"])
    /\ other = {}
    /\ call = NoCall

\* chi(omega) on the two-point array [w, -w]
CallChi ==
    /\ pc = "call"
    /\ call = NoCall
    /\ \E w \in Omegas :
          call' = [fn |-> "chi", omega |-> <<w, FNeg(w)>>,
                   out |-> chi(<<w, FNeg(w)>>)]
    /\ UNCHANGED <<cfg, locals, other>>

\* maxwellian(h, u, xi)
CallMaxwellian ==
    /\ pc = "call"
    /\ call = NoCall
    /\ \E hh \in FnDepths, uu \in FnVelocities, grid \in FnGrids :
          call' = [fn |-> "maxwellian", h |-> hh, u |-> uu, xi |-> grid,
                   out |-> maxwellian(hh, uu, grid)]
    /\ UNCHANGED <<cfg, locals, other>>

\* The interface loop of step_kinetic on a single cell: out[1] is the flux
\* pair of interface 0 and out[2] that of interface N = 1, both walls.
CallWallFlux ==
    /\ pc = "call"
    /\ call = NoCall
    /\ \E hh \in FnDepths, uu \in FnVelocities, grid \in SymGrids :
          call' = [fn |-> "wall_flux", h |-> hh, u |-> uu, xi |-> grid,
                   out |-> Fluxes(<<hh>>, <<uu>>, grid,
                                  FSub(grid[2], grid[1]))]
    /\ UNCHANGED <<cfg, locals, other>>

\* Depth and discharge arrays of one to MaxCells cells.
MaxCells == 3

LoopDepths == {HalfEps, One, Two}

LoopDischarges == {FNeg(One), Zero, Two}

RECURSIVE Arrays(_, _)
\* The arrays of n entries in S.
Arrays(S, n) ==
    IF n = 0 THEN {<<>>}
    ELSE {Append(a, v) : a \in Arrays(S, n - 1), v \in S}

\* The interface loop of step_kinetic on the arrays h and hu: u is the
\* velocity the function derives, out the state pairs it hands to
\* kinetic_flux, one per iteration.
CallInterfaceLoop ==
    /\ pc = "call"
    /\ call = NoCall
    /\ \E n \in 1..MaxCells :
          \E hh \in Arrays(LoopDepths, n), q \in Arrays(LoopDischarges, n) :
             \E uu \in {Velocity(hh, q)} :
                call' = [fn |-> "interface_loop", h |-> hh, hu |-> q,
                         u |-> uu, out |-> FluxCalls(hh, uu)]
    /\ UNCHANGED <<cfg, locals, other>>

FnNext == CallChi \/ CallMaxwellian \/ CallWallFlux \/ CallInterfaceLoop

FnSpec == FnInit /\ [][FnNext]_vars

(***************************************************************************)
(* Two calls of run that differ in output_interval only                    *)
(***************************************************************************)
PairCfgs ==
    {[BaseCfg EXCEPT !.N = n, !.rain_rate = r] :
        n \in 1..2, r \in {Zero, FInt(-4)}}

PairInit ==
    /\ cfg \in PairCfgs
    /\ Is(Start)
    /\ \E k \in {0, 2, 3} :
          other = {[cfg |-> [cfg EXCEPT !.output_interval = k], s |-> Start]}
    /\ call = NoCall

\* The next line of run for the locals s under the arguments c.
Move(c, s) ==
    IF s.pc = "start" THEN RunSetup(c)
    ELSE IF FLt(s.t, c.T) THEN RunIter(c, s)
    ELSE RunReturn(c, s)

\* The second run moves.
Other ==
    /\ \E o \in other :
          /\ o.s.pc \in {"start", "loop"}
          /\ other' = {[cfg |-> o.cfg, s |-> Move(o.cfg, o.s)]}
    /\ UNCHANGED <<cfg, locals, call>>

PairNext == Setup \/ Loop \/ Return \/ Other

PairSpec == PairInit /\ [][PairNext]_vars

(***************************************************************************)
(* run and a caller of step_kinetic on the object store                    *)
(***************************************************************************)
\* Short runs of one to MaxN cells, without and with a loss of water.
FrameCfgs ==
    {[BaseCfg EXCEPT !.N = n, !.cfl = c, !.rain_rate = r] :
        n \in 1..MaxN, c \in {Half, One}, r \in {Zero, FInt(-4)}}

FrameDepths == {HalfEps, One}

FrameDischarges == {Zero, One}

\* A call of run, or a caller of step_kinetic that holds h, hu and xi.
\* call.st is the store, call.before the store at the last call of
\* step_kinetic.
FrameInit ==
    /\ cfg \in FrameCfgs
    /\ other = {}
    /\ \/ /\ Is(Start)
          /\ call = [fn |-> "run", st |-> NoObjects, before |-> NoObjects]
       \/ /\ cfg = BaseCfg
          /\ \E h0 \in Fields(FrameDepths), hu0 \in Fields(FrameDischarges) :
                /\ Len(h0) = Len(hu0)
                /\ Is([Start EXCEPT !.pc = "step", !.dx = Half,
                         !.xi = StepGrid,
                         !.dxi = FSub(StepGrid[2], StepGrid[1]),
                         !.h = h0, !.hu = hu0])
                /\ call = [fn |-> "caller",
                           st |-> Bind(Bind(Bind(NoObjects, "h", h0),
                                            "hu", hu0), "xi", StepGrid),
                           before |-> NoObjects]

\* The lines of run before the time loop.
FrameSetup ==
    /\ pc = "start"
    /\ Becomes(RunSetup(cfg))
    /\ call' = [call EXCEPT !.st = StoreSetup(RunSetup(cfg))]
    /\ UNCHANGED <<cfg, other>>

\* One iteration of the time loop of run.
FrameLoop ==
    /\ pc = "loop"
    /\ FLt(t, cfg.T)
    /\ \E st \in {StoreVelocity(call.st)} :
       \E sm \in {max_wave_speed(Val(st, "h"), Val(st, "u"))} :
       \E d \in {TimeStep(cfg.cfl, dx, sm, t, cfg.T)} :
       \E new \in {StoreCall(st, dx, d, dxi)} :
          /\ call' = [call EXCEPT !.st = new, !.before = st]
          /\ x' = Val(new, "x") /\ Z' = Val(new, "Z") /\ R' = Val(new, "R")
          /\ xi' = Val(new, "xi")
          /\ h' = Val(new, "h") /\ hu' = Val(new, "hu") /\ u' = Val(new, "u")
          /\ smax' = sm /\ dt' = d /\ t' = FAdd(t, d)
          /\ step' = (step + 1) % StepMod
    /\ UNCHANGED <<cfg, pc, err, dx, I, dxi, ret, other>>

\* h_pos = np.maximum(h, 1e-8); u = hu / h_pos; return x, Z, h_pos, u
FrameReturn ==
    /\ pc = "loop"
    /\ ~FLt(t, cfg.T)
    /\ \E st \in {StoreVelocity(call.st)} :
          /\ call' = [call EXCEPT !.st = st]
          /\ u' = Val(st, "u")
          /\ ret' = {<<Val(st, "x"), Val(st, "Z"), Val(st, "h_pos"),
                       Val(st, "u")>>}
    /\ pc' = "done"
    /\ UNCHANGED <<cfg, err, dx, x, Z, R, I, xi, dxi, h, hu, t, dt, smax,
                   step, other>>

\* The arguments a caller makes up for a call: a bed z, a rainfall of -4 and
\* an infiltration that is None (inf = 0), the rainfall object itself
\* (inf = 1) or an array of ones (inf = 2).
Caller(st, z, inf) ==
    LET zr == Bind(Bind(st, "Z", z), "R", Uniform(FInt(-4), Len(z)))
    IN  IF inf = 0 THEN [zr EXCEPT !.env["I"] = 0]
        ELSE IF inf = 1 THEN [zr EXCEPT !.env["I"] = zr.env["R"]]
        ELSE Bind(zr, "I", Uniform(One, Len(z)))

\* h, hu = step_kinetic(h, hu, Z, R, I, dx, dt, xi, dxi) by the caller
FrameCall ==
    /\ pc = "step"
    /\ step < MaxCalls
    /\ \E z \in StepBeds(Len(h)), inf \in 0..2 :
       \E st \in {Caller(call.st, z, inf)} :
       \E new \in {StoreCall(st, dx, FRat(1, 8), dxi)} :
          /\ call' = [call EXCEPT !.st = new, !.before = st]
          /\ Z' = Val(new, "Z") /\ R' = Val(new, "R") /\ I' = Opt(new, "I")
          /\ xi' = Val(new, "xi")
          /\ h' = Val(new, "h") /\ hu' = Val(new, "hu")
          /\ dt' = FRat(1, 8)
          /\ step' = step + 1
    /\ UNCHANGED <<cfg, pc, err, dx, x, dxi, u, t, smax, ret, other>>

FrameNext == FrameSetup \/ FrameLoop \/ FrameReturn \/ FrameCall

FrameSpec == FrameInit /\ [][FrameNext]_vars

(***************************************************************************)
(* Properties                                                              *)
(***************************************************************************)
\* run has executed at least one iteration of its time loop (max_wave_speed
\* is positive for every state, and smax is assigned in every iteration).
Stepped == smax.m # 0

\* The arguments are in the documented ranges: N > 0, L > 0, T >= 0 and
\* cfl in (0, 1].
InRange(c) ==
    /\ c.N > 0
    /\ FLt(Zero, c.L)
    /\ FLe(Zero, c.T)
    /\ FLt(Zero, c.cfl) /\ FLe(c.cfl, One)

\* sum(h) * dx as the program would evaluate it
Mass(hh, d) == FMul(NpSum(hh), d)

\* C1 (StepSpec).  After every step_kinetic call, whatever the rainfall,
\* the infiltration, the topography and the time step, every depth of the
\* returned state is >= 0 and every cell whose depth is below h_eps has a
\* discharge of exactly 0.
C1_DryCellInvariant ==
    (pc = "step" /\ step > 0) =>
        \A i \in 1..Len(h) :
            /\ FLe(Zero, h[i])
            /\ FLt(h[i], h_eps) => hu[i] = Zero

\* Two calls have been made, the last with infiltration over a sloping bed;
\* one cell came out dry and another wet and moving.
C1_Witness ==
    /\ pc = "step" /\ step >= 2
    /\ I # {} /\ Z # Uniform(Zero, Len(Z))
    /\ \E i \in 1..Len(h) : FLt(h[i], h_eps) /\ hu[i] = Zero
    /\ \E j \in 1..Len(h) : FLe(h_eps, h[j]) /\ hu[j] # Zero

\* C2 as stated (Spec).  Without recharge the total sum(h) * dx is, after
\* every step of the run loop, the same as in the initial state.
C2_ExactlyConserved ==
    (cfg.rain_rate = Zero /\ pc \in {"loop", "done"}) =>
        Mass(h, dx) = Mass(RunSetup(cfg).h, dx)

\* Without recharge and for arguments in the documented ranges, a step has
\* set a depth that the update made negative to zero, and the total
\* sum(h) * dx is more than one percent above its initial value.
ClampAddsMass ==
    /\ cfg.rain_rate = Zero /\ InRange(cfg)
    /\ pc = "loop" /\ Stepped
    /\ \E i \in 1..Len(h) : h[i] = Zero
    /\ FLt(FMul(FRat(101, 100), Mass(RunSetup(cfg).h, dx)), Mass(h, dx))

\* C3 (Spec).  In every iteration of the run loop the time step passed to
\* step_kinetic is at most cfl * dx / s_max, with s_max the bound returned
\* by max_wave_speed for the state the iteration started from; the last,
\* shortened, step included.
C3_CflBound ==
    Stepped => FLe(dt, FDiv(FMul(cfg.cfl, dx), smax))

\* The last iteration of a run has shortened its step to end at T.
C3_Witness ==
    /\ InRange(cfg) /\ Stepped /\ pc = "loop"
    /\ ~FLt(t, cfg.T)
    /\ FLt(dt, FDiv(FMul(cfg.cfl, dx), FAdd(smax, tiny)))

\* C4 (Spec).  For arguments in the documented ranges the loop of run
\* stops, t never exceeds T, and t equals T once the loop has been left.
\* The loop is deterministic in (h, hu, t), so it stops only if no iteration
\* hands the next one the state it started from: that is how termination is
\* stated here, as a property a finite run can refute.
C4_TerminatesAtT ==
    /\ [][(InRange(cfg) /\ pc = "loop" /\ FLt(t, cfg.T)) =>
              <<h', hu', t'>> # <<h, hu, t>>]_vars
    /\ []((InRange(cfg) /\ pc \in {"loop", "done"}) => FLe(t, cfg.T))
    /\ []((InRange(cfg) /\ pc = "done") => t = cfg.T)

\* C5 (Spec).  Arguments with N <= 0 or cfl outside (0, 1] are rejected
\* before the time loop takes a step: such a run fails, it neither steps
\* nor returns.
C5_RejectedBeforeStepping ==
    (cfg.N <= 0 \/ ~(FLt(Zero, cfg.cfl) /\ FLe(cfg.cfl, One))) =>
        /\ ~Stepped
        /\ pc \in {"start", "failed"}

\* C6 (PairSpec).  Two runs that differ in output_interval only: neither
\* fails where the other returns, and when both have returned they return
\* the same (x, Z, h, u).
C6_CadenceHasNoEffect ==
    \A o \in other :
        /\ ~(pc = "done" /\ o.s.pc = "failed")
        /\ ~(pc = "failed" /\ o.s.pc = "done")
        /\ (pc = "done" /\ o.s.pc = "done") => ret = o.s.ret

\* C7 (Spec).  run returns the coordinates, the bed, the depth h of the
\* state the last step produced and the velocity hu / max(h, h_eps), each
\* of length N; the returned depth is the state's depth in every cell.
C7_ReturnsFinalState ==
    pc = "done" =>
        /\ ret = {<<x, Z, h, Velocity(h, hu)>>}
        /\ \A r \in ret : \A k \in 1..4 : Len(r[k]) = cfg.N

\* C8 (FnSpec).  For a depth h <= h_eps, whatever the velocity, maxwellian
\* returns zeros, as many as the kinetic grid has points.
C8_MaxwellianDry ==
    (call.fn = "maxwellian" /\ FLe(call.h, h_eps)) =>
        /\ Len(call.out) = Len(call.xi)
        /\ \A j \in 1..Len(call.out) : call.out[j] = Zero

\* maxwellian was called with h exactly h_eps, a velocity that is a point
\* of the grid, and returned zeros.
C8_Witness ==
    /\ call.fn = "maxwellian"
    /\ call.h = h_eps
    /\ \E j \in 1..Len(call.xi) : call.xi[j] = call.u /\ call.u # Zero
    /\ \A j \in 1..Len(call.out) : call.out[j] = Zero

\* C9 (FnSpec).  chi(omega) >= 0, chi(omega) = 0 whenever omega^2 > 2 g,
\* and chi(omega) = chi(-omega).
C9_ChiKernel ==
    call.fn = "chi" =>
        /\ FLe(Zero, call.out[1])
        /\ FLt(FMul(Two, g), FMul(call.omega[1], call.omega[1]))
              => call.out[1] = Zero
        /\ call.out[1] = call.out[2]

\* chi was called inside its support on a nonzero argument and its
\* negative, and returned a positive weight.
C9_Witness ==
    /\ call.fn = "chi"
    /\ call.omega[1] # Zero
    /\ call.omega[2] = FNeg(call.omega[1])
    /\ FLt(Zero, call.out[1])

\* sum(|xi| * M_up) * dxi of the wall k of the call: the size of the terms
\* the mass flux adds up.
WallAbsFlux(k) ==
    LET s == InterfaceStates(<<call.h>>, <<call.u>>, k - 1)
        M == M_up(call.xi, maxwellian(s[1], s[2], call.xi),
                  maxwellian(s[3], s[4], call.xi))
    IN  FMul(NpSum(Arr([j \in 1..Len(call.xi) |->
                          FMul(FAbs(call.xi[j]), M[j])])),
             FSub(call.xi[2], call.xi[1]))

\* C10 as stated (FnSpec).  On a grid symmetric about zero the mass flux and
\* the momentum flux of the mirrored state pair are both zero at both walls.
C10_WallFluxesZero ==
    call.fn = "wall_flux" =>
        \A k \in 1..2 : call.out[k] = <<Zero, Zero>>

\* C10 (FnSpec), amended.  On a grid symmetric about zero the mass flux of
\* the mirrored state pair is zero up to rounding (at most one unit of
\* roundoff per grid point, relative to sum(|xi| * M_up) * dxi) at both
\* walls; the momentum flux is >= 0; both are exactly zero when the cell is
\* dry (h <= h_eps).
C10_WallMassFluxZero ==
    call.fn = "wall_flux" =>
        \A k \in 1..2 :
            /\ FLe(FAbs(call.out[k][1]),
                   FMul(FRat(Len(call.xi), Pow2(Prec)), WallAbsFlux(k)))
            /\ FLe(Zero, call.out[k][2])
            /\ FLe(call.h, h_eps) => call.out[k] = <<Zero, Zero>>

\* The wall fluxes of a wet, moving cell were computed; the momentum flux
\* came out positive at both walls.
C10_Witness ==
    /\ call.fn = "wall_flux"
    /\ FLt(h_eps, call.h) /\ call.u # Zero
    /\ \A k \in 1..2 : FLt(Zero, call.out[k][2])

\* C11 (FnSpec).  For N cells the interface loop of step_kinetic evaluates
\* exactly N + 1 interfaces; interface 0 has left = (h[0], -u[0]) and
\* right = (h[0], u[0]); interface N has left = (h[N-1], u[N-1]) and
\* right = (h[N-1], -u[N-1]); every interface i with 0 < i < N has
\* left = (h[i-1], u[i-1]) and right = (h[i], u[i]); for N = 1 both
\* interfaces are walls of cell 0.  (Sequences are 1-based: cell j of the
\* source is entry j + 1, interface i is entry i + 1 of out.)
C11_InterfaceAssembly ==
    call.fn = "interface_loop" =>
        LET N == Len(call.h)
            hh == call.h
            uu == call.u
        IN  /\ Len(call.out) = N + 1
            /\ call.out[1] = <<hh[1], FNeg(uu[1]), hh[1], uu[1]>>
            /\ call.out[N + 1] = <<hh[N], uu[N], hh[N], FNeg(uu[N])>>
            /\ \A i \in 1..(N - 1) :
                  call.out[i + 1] = <<hh[i], uu[i], hh[i + 1], uu[i + 1]>>
            /\ N = 1 => \A k \in 1..2 :
                  /\ call.out[k][1] = hh[1] /\ call.out[k][3] = hh[1]
                  /\ call.out[k][2] = FNeg(call.out[k][4])

\* The loop ran over three cells of different depths, all moving, so that
\* walls and interior interfaces differ and a missing mirror would show.
C11_Witness ==
    /\ call.fn = "interface_loop"
    /\ Len(call.h) = 3
    /\ call.h[1] # call.h[2] /\ call.h[2] # call.h[3]
    /\ \A i \in 1..3 : call.u[i] # Zero
    /\ call.u[1] # call.u[2] /\ call.u[2] # call.u[3]
    /\ Len(call.out) = 4

\* step_kinetic has been called in this store.
Called == Len(call.before.mem) > 0

\* C12 (FrameSpec).  A call of step_kinetic leaves every array that existed
\* at the call, its inputs h, hu, Z, R, I and xi among them, holding what it
\* held, and the h and hu it returns are two objects created by the call
\* (so the dry-cell zeroing has written to a new array); the values
\* returned are those of step_kinetic on the values passed.  Across a run
\* the names x, Z, R, xi stay bound to the objects created before the loop,
\* and these objects and dxi keep the values they had before the first
\* step.
C12_Frame ==
    /\ Called =>
          LET b == call.before
              a == call.st
          IN  /\ \A id \in 1..Len(b.mem) : a.mem[id] = b.mem[id]
              /\ a.env["h"] > Len(b.mem) /\ a.env["hu"] > Len(b.mem)
              /\ a.env["h"] # a.env["hu"]
              /\ \A n \in {"x", "Z", "R", "I", "xi"} : a.env[n] = b.env[n]
              /\ <<Val(a, "h"), Val(a, "hu")>> =
                     step_kinetic(Val(b, "h"), Val(b, "hu"), Val(b, "Z"),
                                  Val(b, "R"), Opt(b, "I"), dx, dt,
                                  Val(b, "xi"), dxi)
    /\ call.fn = "run" /\ pc \in {"loop", "done"} =>
          /\ \A n \in {"x", "Z", "R", "xi"} :
                /\ call.st.env[n] = StoreSetup(RunSetup(cfg)).env[n]
                /\ Val(call.st, n) = Val(StoreSetup(RunSetup(cfg)), n)
          /\ <<x, Z, R, xi, dxi>> =
                <<RunSetup(cfg).x, RunSetup(cfg).Z, RunSetup(cfg).R,
                  RunSetup(cfg).xi, RunSetup(cfg).dxi>>

\* A call of step_kinetic with an infiltration array found a moving cell and
\* left it dry: the discharge it returns for the cell is zero, and the
\* discharge array passed in still holds the cell's discharge.
C12_Witness ==
    /\ Called
    /\ call.before.env["I"] # 0
    /\ \E i \in 1..Len(h) :
          /\ Val(call.before, "hu")[i] # Zero
          /\ Val(call.st, "hu")[i] = Zero
          /\ FLt(Val(call.st, "h")[i], h_eps)
          /\ call.st.mem[call.before.env["hu"]][i] # Zero

\* A run has taken two steps or more: the arrays of the first step are no
\* longer bound, the grid and the fields of the setup are.
C12_RunWitness ==
    /\ call.fn = "run" /\ pc = "done" /\ Called
    /\ call.before.env["h"] > 7
    /\ h # RunSetup(cfg).h

\* xi_max_factor * sqrt(2 g max(h_initial)) for the arguments c: the initial
\* depth is 2 left of L / 2 and 1 elsewhere, and with one cell the only
\* centre is at L / 2.
XiMax(c) ==
    FMul(c.xi_max_factor,
         FSqrt(FMul(FMul(Two, g), IF c.N = 1 THEN One ELSE Two)))

\* run is past the lines that build the kinetic grid, called with N > 0,
\* N_xi > 0 and a sizing factor > 0.
GridCase ==
    /\ pc # "start"
    /\ cfg.N > 0 /\ cfg.N_xi > 0 /\ FLt(Zero, cfg.xi_max_factor)

\* Building the grid raised an exception: run failed before its first
\* iteration, and not at dx = L / N or np.ones(N), which fail for N <= 0.
GridFailed == pc = "failed" /\ ~Stepped /\ cfg.N > 0

\* C13 as stated (Spec).  For every N_xi > 0 and sizing factor > 0, building
\* the kinetic grid does not fail, and the grid has N_xi points, runs from
\* -xi_max to xi_max with xi_max = xi_max_factor * sqrt(2 g max(h_initial)),
\* has the same difference dxi between every two neighbours, and holds -v
\* whenever it holds v.
C13_GridConstruction ==
    GridCase =>
        /\ ~GridFailed
        /\ Len(xi) = cfg.N_xi
        /\ xi[1] = FNeg(XiMax(cfg)) /\ xi[cfg.N_xi] = XiMax(cfg)
        /\ \A k \in 1..(cfg.N_xi - 1) : FSub(xi[k + 1], xi[k]) = dxi
        /\ \A k \in 1..cfg.N_xi : \E j \in 1..cfg.N_xi : xi[j] = FNeg(xi[k])
=============================================================================
